---- MODULE Spec2Model ----
(***************************************************************************)
(* Model of example_main.py, the command-line entry point of the Debate    *)
(* crew: the __main__ block, main(), run(), train(), replay(), test(),     *)
(* get_default_inputs() and validate_inputs().  The crew object (Debate)   *)
(* is an external collaborator: each of its operations either returns a    *)
(* result, raises an Exception, or is interrupted (KeyboardInterrupt).     *)
(***************************************************************************)
EXTENDS Integers, Sequences, FiniteSets, TLC

VARIABLES
    entry,      \* "cli": the module is run as a script; "api": a function is called
    argv,       \* the command line
    now,        \* datetime.now().year
    pc,         \* where control is
    fn,         \* the function being executed: run, train, replay, test, validate_inputs
    args,       \* the namespace parse_args() returned
    given,      \* the inputs argument as the caller passed it
    inputs,     \* the inputs variable of the executing function
    params,     \* the other arguments of the executing function
    exc,        \* the exception in flight
    calls,      \* the operations called on the crew, in order
    out,        \* the lines written to stdout and stderr
    exit_code,  \* the exit status of the process, -1 while it runs
    outcome     \* what the framework did last, and in which phase

vars == <<entry, argv, now, pc, fn, args, given, inputs, params, exc, calls, out,
          exit_code, outcome>>

----------------------------------------------------------------------------
(* Bounds of the explored inputs *)

MaxYear == 2026
MaxIterations == 2

Years == 2025 .. MaxYear

----------------------------------------------------------------------------
(* Python values: None and str; a dict is a function from keys to values *)

PyNone == [t |-> "None"]

PyStr(s) == [t |-> "str", v |-> s]

\* truth value of a Python object as used by `not x` / `if x:`
Truthy(x) == x.t = "str" /\ x.v # ""

\* dict.get(key): the value, or None when the key is missing
Get(d, k) == IF k \in DOMAIN d THEN d[k] ELSE PyNone

\* d[key] = value
Put(d, k, val) == [x \in (DOMAIN d) \cup {k} |-> IF x = k THEN val ELSE d[x]]

EmptyDict == [x \in {} |-> PyNone]

Digit == <<"0", "1", "2", "3", "4", "5", "6", "7", "8", "9">>

RECURSIVE StrNat(_)
StrNat(n) == IF n < 10 THEN Digit[n + 1]
             ELSE StrNat(n \div 10) \o Digit[(n % 10) + 1]

\* str(n) for an int
Str(n) == IF n < 0 THEN "-" \o StrNat(0 - n) ELSE StrNat(n)

----------------------------------------------------------------------------
(* get_default_inputs / validate_inputs *)

DEFAULT_MOTION == "AI LLMs will significantly improve human productivity"

get_default_inputs(year) ==
    [k \in {"motion", "current_year"} |->
        IF k = "motion" THEN PyStr(DEFAULT_MOTION) ELSE PyStr(Str(year))]

\* variant: `if inputs.get(key) is None`
NeedsDefault_NoneOnly(d, k) == Get(d, k) = PyNone

\* `not inputs.get(key)`
NeedsDefault(d, k) == ~Truthy(Get(d, k))

\* variant: `if 'motion' not in inputs` / `if 'current_year' not in inputs`
validate_inputs_MissingOnly(d, year) ==
    LET d1 == IF "motion" \notin DOMAIN d
              THEN Put(d, "motion", get_default_inputs(year)["motion"])
              ELSE d
        d2 == IF "current_year" \notin DOMAIN d1
              THEN Put(d1, "current_year", get_default_inputs(year)["current_year"])
              ELSE d1
    IN d2

validate_inputs(d, year) ==
    LET d1 == IF NeedsDefault(d, "motion")
              THEN Put(d, "motion", get_default_inputs(year)["motion"])
              ELSE d
        d2 == IF NeedsDefault(d1, "current_year")
              THEN Put(d1, "current_year", get_default_inputs(year)["current_year"])
              ELSE d1
    IN d2

----------------------------------------------------------------------------
(* The command line (sys.argv[1:]) and argparse *)

Actions == {"run", "train", "replay", "test"}

StrOptions == {"--motion", "--filename", "--eval-llm", "--task-id"}

\* values given to the string options on the command line
OptionValues ==
    [o \in StrOptions |->
        CASE o = "--motion"   -> {"", "Remote work improves productivity"}
          [] o = "--filename" -> {"out.json"}
          [] o = "--eval-llm" -> {"openai/gpt-4o"}
          [] o = "--task-id"  -> {"", "task-42"}]

\* tokens given to --iterations, as character sequences
IterationTokens == {<<"7">>, <<"1", "2">>, <<"-", "3">>, <<"x">>}

\* a command line: at most one positional word, some string options, at most
\* one --iterations token, and -h (absent, before or after the other words)
CommandLines ==
    { [action |-> a, opts |-> o, iterations |-> i, help |-> h] :
        a \in {<<>>} \cup { <<w>> : w \in Actions \cup {"bogus"} },
        o \in UNION { [S -> UNION { OptionValues[x] : x \in S }] :
                        S \in SUBSET StrOptions },
        i \in {<<>>} \cup { <<tk>> : tk \in IterationTokens },
        h \in {"absent", "first", "last"} }

WellFormed(cl) == \A o \in DOMAIN cl.opts : cl.opts[o] \in OptionValues[o]

\* len(sys.argv) == 1
NoArguments(cl) ==
    /\ cl.action = <<>>
    /\ DOMAIN cl.opts = {}
    /\ cl.iterations = <<>>
    /\ cl.help = "absent"

IsDigit(c) == \E n \in 1..10 : Digit[n] = c

DigitValue(c) == (CHOOSE n \in 1..10 : Digit[n] = c) - 1

RECURSIVE DigitsValue(_)
DigitsValue(cs) ==
    IF cs = <<>> THEN 0
    ELSE 10 * DigitsValue(SubSeq(cs, 1, Len(cs) - 1)) + DigitValue(cs[Len(cs)])

AllDigits(cs) == cs # <<>> /\ \A n \in 1..Len(cs) : IsDigit(cs[n])

\* int(token) succeeds
IsInt(tk) ==
    IF tk # <<>> /\ tk[1] \in {"-", "+"} THEN AllDigits(Tail(tk))
    ELSE AllDigits(tk)

\* int(token)
ToInt(tk) ==
    IF tk[1] = "-" THEN 0 - DigitsValue(Tail(tk))
    ELSE IF tk[1] = "+" THEN DigitsValue(Tail(tk))
    ELSE DigitsValue(tk)

DEFAULT_ITERATIONS == 5
DEFAULT_FILENAME == "training_results.json"
DEFAULT_EVAL_LLM == "openai/gpt-4o-mini"

\* what parser.parse_args() does with the command line:
\* "help" (usage printed, exit 0), "error" (message on stderr, exit 2) or "ok"
ParseOutcome(cl) ==
    LET bad == \/ (cl.iterations # <<>> /\ ~IsInt(cl.iterations[1]))
               \/ (cl.action # <<>> /\ cl.action[1] \notin Actions)
    IN  IF cl.help = "first" THEN "help"
        ELSE IF bad THEN "error"
        ELSE IF cl.help = "last" THEN "help"
        ELSE IF cl.action = <<>> THEN "error"
        ELSE "ok"

\* a string option of the namespace: its value, or None when not given
OptionOrNone(cl, o) == IF o \in DOMAIN cl.opts THEN PyStr(cl.opts[o]) ELSE PyNone

\* a string option of the namespace with a default
OptionOrDefault(cl, o, dflt) == IF o \in DOMAIN cl.opts THEN cl.opts[o] ELSE dflt

\* the namespace parse_args() returns when the outcome is "ok"
parse_args(cl) ==
    [action     |-> cl.action[1],
     motion     |-> OptionOrNone(cl, "--motion"),
     iterations |-> IF cl.iterations = <<>> THEN DEFAULT_ITERATIONS
                    ELSE ToInt(cl.iterations[1]),
     filename   |-> OptionOrDefault(cl, "--filename", DEFAULT_FILENAME),
     eval_llm   |-> OptionOrDefault(cl, "--eval-llm", DEFAULT_EVAL_LLM),
     task_id    |-> OptionOrNone(cl, "--task-id")]

NoArgs == [action |-> "", motion |-> PyNone, iterations |-> 0, filename |-> "",
           eval_llm |-> "", task_id |-> PyNone]

\* variant: args.motion is never copied into the inputs
PrepareInputs_NoOverride(a, year) == get_default_inputs(year)

\* main: inputs = get_default_inputs(); if args.motion: inputs['motion'] = args.motion
PrepareInputs(a, year) ==
    IF Truthy(a.motion) THEN Put(get_default_inputs(year), "motion", a.motion)
    ELSE get_default_inputs(year)

\* variant: `if args.task_id is None`
TaskIdMissing_NoneOnly(a) == a.task_id = PyNone

\* main: `if not args.task_id`
TaskIdMissing(a) == ~Truthy(a.task_id)

----------------------------------------------------------------------------
(* The crew object and the exceptions in flight *)

PyDict(d) == [t |-> "dict", d |-> d]

\* str(result) of what a crew operation returns, and str(e) of what it raises
Results == {"The motion is carried"}
ExceptionTexts == {"rate limit exceeded", "connection reset"}

NoException == [type |-> "none", text |-> "", code |-> 0]

Raised(type, text) == [type |-> type, text |-> text, code |-> 0]

\* sys.exit(code)
SystemExit(code) == [type |-> "SystemExit", text |-> "", code |-> code]

\* what Debate(), .crew() or a crew operation can do
FrameworkOutcomes ==
    { [kind |-> "return", exc |-> NoException, result |-> r] : r \in Results }
    \cup { [kind |-> "exception", exc |-> Raised("Exception", e), result |-> ""] :
             e \in ExceptionTexts }
    \cup { [kind |-> "interrupt", exc |-> Raised("KeyboardInterrupt", ""),
            result |-> ""] }

NoOutcome == [phase |-> "none", kind |-> "none", exc |-> NoException, result |-> ""]

\* the outcome o, observed while constructing the crew or while calling it
Observed(phase, o) ==
    [phase |-> phase, kind |-> o.kind, exc |-> o.exc, result |-> o.result]


\* `except Exception` matches
IsException(e) == e.type = "Exception"

\* `except KeyboardInterrupt` matches
IsKeyboardInterrupt(e) == e.type = "KeyboardInterrupt"

\* main's except clauses: the exception that leaves main when e leaves the try block
MainHandler(e) ==
    IF IsKeyboardInterrupt(e) \/ IsException(e) THEN SystemExit(1) ELSE e

\* print(...) and the interpreter's own writes
Line(stream, text, arg) == [stream |-> stream, text |-> text, arg |-> arg]

Stdout(text, arg) == Line("stdout", text, arg)

\* who called the function in fn
Caller == IF entry = "api" THEN "api"
          ELSE IF NoArguments(argv) THEN "block" ELSE "main"

\* exit status of a process killed by an uncaught KeyboardInterrupt (128 + SIGINT)
SIGINT_EXIT == 130

\* variant: an uncaught KeyboardInterrupt ends the process like any other exception
UncaughtExit_AlwaysOne(e) == IF e.type = "SystemExit" THEN e.code ELSE 1

\* exit status the interpreter gives an exception nobody caught
UncaughtExit(e) ==
    IF e.type = "SystemExit" THEN e.code
    ELSE IF IsKeyboardInterrupt(e) THEN SIGINT_EXIT
    ELSE 1

NoParams == [n_iterations |-> 0, filename |-> "", eval_llm |-> "", task_id |-> ""]

\* the call a function makes on the crew
CrewCall(f, inp, p) ==
    CASE f = "run"    -> [op |-> "kickoff", inputs |-> inp]
      [] f = "train"  -> [op |-> "train", n_iterations |-> p.n_iterations,
                          filename |-> p.filename, inputs |-> inp]
      [] f = "replay" -> [op |-> "replay", task_id |-> p.task_id]
      [] f = "test"   -> [op |-> "test", n_iterations |-> p.n_iterations,
                          eval_llm |-> p.eval_llm, inputs |-> inp]

\* what each function prints before its try block
Banner(f, inp, p) ==
    CASE f = "run"    -> << Stdout("Starting debate on motion: ", inp["motion"].v),
                            Stdout("Current year: ", inp["current_year"].v),
                            Stdout("-" , "") >>
      [] f = "train"  -> << Stdout("Training crew for iterations: ", Str(p.n_iterations)),
                            Stdout("Motion: ", inp["motion"].v),
                            Stdout("Results will be saved to: ", p.filename),
                            Stdout("-", "") >>
      [] f = "replay" -> << Stdout("Replaying crew execution from task: ", p.task_id),
                            Stdout("-", "") >>
      [] f = "test"   -> << Stdout("Testing crew for iterations: ", Str(p.n_iterations)),
                            Stdout("Evaluation LLM: ", p.eval_llm),
                            Stdout("Motion: ", inp["motion"].v),
                            Stdout("-", "") >>

\* what each function prints after its crew operation returned
Success(f, p, result) ==
    CASE f = "run"    -> << Stdout("=", ""), Stdout("DEBATE COMPLETED", ""),
                            Stdout("=", ""), Stdout("Result: ", result) >>
      [] f = "train"  -> << Stdout("Training completed successfully! Results saved to ",
                                  p.filename) >>
      [] f = "replay" -> << Stdout("Replay completed successfully!", ""),
                            Stdout("Result: ", result) >>
      [] f = "test"   -> << Stdout("Testing completed successfully!", ""),
                            Stdout("Test results: ", result) >>

\* variant: the message is printed without the exception
ErrorLine_NoText(f, e) ==
    CASE f = "run"    -> Stdout("Error occurred while running the crew: ", "")
      [] f = "train"  -> Stdout("Error occurred while training the crew: ", "")
      [] f = "replay" -> Stdout("Error occurred while replaying the crew: ", "")
      [] f = "test"   -> Stdout("Error occurred while testing the crew: ", "")

\* what each function's `except Exception as e` prints
ErrorLine(f, e) ==
    CASE f = "run"    -> Stdout("Error occurred while running the crew: ", e.text)
      [] f = "train"  -> Stdout("Error occurred while training the crew: ", e.text)
      [] f = "replay" -> Stdout("Error occurred while replaying the crew: ", e.text)
      [] f = "test"   -> Stdout("Error occurred while testing the crew: ", e.text)

----------------------------------------------------------------------------
(* Calls made by importing code *)

ApiValues ==
    [k \in {"motion", "current_year", "style"} |->
        CASE k = "motion"       -> {PyNone, PyStr(""), PyStr("Cats are better than dogs")}
          [] k = "current_year" -> {PyNone, PyStr(""), PyStr("1999")}
          [] k = "style"        -> {PyStr("formal")}]

ApiDicts ==
    { d \in UNION { [S -> UNION { ApiValues[k] : k \in S }] :
                      S \in SUBSET {"motion", "current_year", "style"} } :
        \A k \in DOMAIN d : d[k] \in ApiValues[k] }

ApiParams ==
    [n_iterations : 1..MaxIterations, filename : {DEFAULT_FILENAME},
     eval_llm : {DEFAULT_EVAL_LLM}, task_id : {"", "task-42"}]

\* the arguments a function looks at
ApiCalls ==
    { c \in [fn : Actions \cup {"validate_inputs"},
             inputs : {PyNone} \cup { PyDict(d) : d \in ApiDicts },
             params : ApiParams] :
        /\ c.fn = "validate_inputs" => c.inputs # PyNone
        /\ c.fn = "validate_inputs" \/ c.fn = "run" =>
              /\ c.params.n_iterations = 1
              /\ c.params.task_id = ""
        /\ c.fn = "replay" => (c.inputs = PyNone /\ c.params.n_iterations = 1)
        /\ c.fn \in {"train", "test"} => c.params.task_id = "" }

EmptyCommandLine == [action |-> <<>>, opts |-> EmptyDict, iterations |-> <<>>,
                     help |-> "absent"]

----------------------------------------------------------------------------
(* The state machine *)

InitCli ==
    /\ entry = "cli"
    /\ argv \in { cl \in CommandLines : WellFormed(cl) }
    /\ pc = "start"
    /\ fn = ""
    /\ given = PyNone
    /\ inputs = PyNone
    /\ params = NoParams

InitApi ==
    /\ entry = "api"
    /\ argv = EmptyCommandLine
    /\ \E c \in ApiCalls :
          /\ fn = c.fn
          /\ given = c.inputs
          /\ inputs = c.inputs
          /\ params = c.params
    /\ pc = "fn"

Init ==
    /\ InitCli \/ InitApi
    /\ now \in Years
    /\ args = NoArgs
    /\ exc = NoException
    /\ calls = <<>>
    /\ out = <<>>
    /\ exit_code = -1
    /\ outcome = NoOutcome

\* variant: test(...) is called without the iteration count and runs with its own default
DispatchParams_TestDefault(a) ==
    CASE a.action = "run"    -> NoParams
      [] a.action = "train"  -> [NoParams EXCEPT !.n_iterations = a.iterations,
                                                 !.filename = a.filename]
      [] a.action = "replay" -> [NoParams EXCEPT !.task_id = a.task_id.v]
      [] a.action = "test"   -> [NoParams EXCEPT !.n_iterations = 3,
                                                 !.eval_llm = a.eval_llm]

\* the arguments main passes to the function of an action
DispatchParams(a) ==
    CASE a.action = "run"    -> NoParams
      [] a.action = "train"  -> [NoParams EXCEPT !.n_iterations = a.iterations,
                                                 !.filename = a.filename]
      [] a.action = "replay" -> [NoParams EXCEPT !.task_id = a.task_id.v]
      [] a.action = "test"   -> [NoParams EXCEPT !.n_iterations = a.iterations,
                                                 !.eval_llm = a.eval_llm]

\* if len(sys.argv) == 1: run()  else: main()
MainBlock ==
    /\ pc = "start"
    /\ IF NoArguments(argv)
       THEN /\ out' = Append(out, Stdout("Running debate crew with default settings...", ""))
            /\ fn' = "run"
            /\ pc' = "fn"
       ELSE /\ pc' = "main"
            /\ UNCHANGED <<out, fn>>
    /\ UNCHANGED <<entry, argv, now, args, given, inputs, params, exc, calls,
                   exit_code, outcome>>

\* main, up to the try block: parse the command line and prepare the inputs
ParseArgs ==
    /\ pc = "main"
    /\ LET po == ParseOutcome(argv)
       IN  CASE po = "help" ->
                  /\ out' = Append(out, Stdout("usage", ""))
                  /\ exc' = SystemExit(0)
                  /\ pc' = "toplevel"
                  /\ UNCHANGED <<args, inputs>>
             [] po = "error" ->
                  /\ out' = Append(out, Line("stderr", "usage: error", ""))
                  /\ exc' = SystemExit(2)
                  /\ pc' = "toplevel"
                  /\ UNCHANGED <<args, inputs>>
             [] po = "ok" ->
                  /\ args' = parse_args(argv)
                  /\ inputs' = PyDict(PrepareInputs(args', now))
                  /\ pc' = "dispatch"
                  /\ UNCHANGED <<out, exc>>
    /\ UNCHANGED <<entry, argv, now, fn, given, params, calls, exit_code, outcome>>

\* main's try block: the if/elif chain on args.action
Dispatch ==
    /\ pc = "dispatch"
    /\ IF args.action = "replay" /\ TaskIdMissing(args)
       THEN /\ out' = Append(out, Stdout("Error: task-id is required for replay action", ""))
            /\ exc' = SystemExit(1)
            /\ pc' = "main_except"
            /\ UNCHANGED <<fn, given, inputs, params>>
       ELSE /\ fn' = args.action
            /\ params' = DispatchParams(args)
            /\ given' = IF args.action = "replay" THEN PyNone ELSE inputs
            /\ inputs' = given'
            /\ pc' = "fn"
            /\ UNCHANGED <<out, exc>>
    /\ UNCHANGED <<entry, argv, now, args, calls, exit_code, outcome>>

\* run / train / test / replay, up to the try block
EnterFunction ==
    /\ pc = "fn"
    /\ fn \in Actions
    /\ inputs' = IF fn = "replay" THEN inputs
                 ELSE PyDict(validate_inputs(IF inputs = PyNone
                                             THEN get_default_inputs(now)
                                             ELSE inputs.d, now))
    /\ out' = out \o Banner(fn, IF fn = "replay" THEN EmptyDict ELSE inputs'.d, params)
    /\ pc' = "construct"
    /\ UNCHANGED <<entry, argv, now, fn, args, given, params, exc, calls,
                   exit_code, outcome>>

\* crew_instance = Debate(); crew_instance.crew()
Construct ==
    /\ pc = "construct"
    /\ \E o \in FrameworkOutcomes :
          /\ outcome' = IF o.kind = "return" THEN outcome ELSE Observed("construct", o)
          /\ exc' = o.exc
          /\ pc' = IF o.kind = "return" THEN "call" ELSE "fn_except"
    /\ UNCHANGED <<entry, argv, now, fn, args, given, inputs, params, calls, out,
                   exit_code>>

\* .kickoff(...) / .train(...) / .replay(...) / .test(...) and the prints after it
Call ==
    /\ pc = "call"
    /\ calls' = Append(calls, CrewCall(fn, IF fn = "replay" THEN EmptyDict ELSE inputs.d,
                                       params))
    /\ \E o \in FrameworkOutcomes :
          /\ outcome' = Observed("call", o)
          /\ exc' = o.exc
          /\ IF o.kind = "return"
             THEN /\ out' = out \o Success(fn, params, o.result)
                  /\ pc' = "fn_done"
             ELSE /\ out' = out
                  /\ pc' = "fn_except"
    /\ UNCHANGED <<entry, argv, now, fn, args, given, inputs, params, exit_code>>

\* variant: the crew operation is tried once more after an Exception
FnExcept_Retry ==
    /\ pc = "fn_except"
    /\ out' = IF IsException(exc) THEN Append(out, ErrorLine(fn, exc)) ELSE out
    /\ pc' = IF IsException(exc) /\ Len(calls) = 1 THEN "call"
             ELSE CASE Caller = "main"  -> "main_except"
                    [] Caller = "block" -> "toplevel"
                    [] Caller = "api"   -> "raised"
    /\ UNCHANGED <<entry, argv, now, fn, args, given, inputs, params, exc, calls,
                   exit_code, outcome>>

\* except Exception as e: print(...); raise
FnExcept ==
    /\ pc = "fn_except"
    /\ out' = IF IsException(exc) THEN Append(out, ErrorLine(fn, exc)) ELSE out
    /\ pc' = CASE Caller = "main"  -> "main_except"
               [] Caller = "block" -> "toplevel"
               [] Caller = "api"   -> "raised"
    /\ UNCHANGED <<entry, argv, now, fn, args, given, inputs, params, exc, calls,
                   exit_code, outcome>>

\* main: except KeyboardInterrupt / except Exception
MainExcept ==
    /\ pc = "main_except"
    /\ out' = CASE IsKeyboardInterrupt(exc) ->
                      Append(out, Stdout("Operation cancelled by user", ""))
                 [] IsException(exc) ->
                      Append(out, Stdout("Fatal error: ", exc.text))
                 [] OTHER -> out
    /\ exc' = MainHandler(exc)
    /\ pc' = "toplevel"
    /\ UNCHANGED <<entry, argv, now, fn, args, given, inputs, params, calls,
                   exit_code, outcome>>

\* the function returns to its caller; main and the script end
FnReturn ==
    /\ pc = "fn_done"
    /\ IF Caller = "api"
       THEN /\ pc' = "returned"
            /\ UNCHANGED exit_code
       ELSE /\ pc' = "exited"
            /\ exit_code' = 0
    /\ UNCHANGED <<entry, argv, now, fn, args, given, inputs, params, exc, calls,
                   out, outcome>>

\* an exception leaves the script: the interpreter ends the process
TopLevel ==
    /\ pc = "toplevel"
    /\ out' = IF exc.type = "SystemExit" THEN out
              ELSE Append(out, Line("stderr", "Traceback (most recent call last)",
                                    exc.text))
    /\ exit_code' = UncaughtExit(exc)
    /\ pc' = "exited"
    /\ UNCHANGED <<entry, argv, now, fn, args, given, inputs, params, exc, calls,
                   outcome>>

\* validate_inputs(inputs) called on its own
Validate ==
    /\ pc = "fn"
    /\ fn = "validate_inputs"
    /\ inputs' = PyDict(validate_inputs(inputs.d, now))
    /\ pc' = "returned"
    /\ UNCHANGED <<entry, argv, now, fn, args, given, params, exc, calls, out,
                   exit_code, outcome>>

Next ==
    \/ MainBlock
    \/ ParseArgs
    \/ Dispatch
    \/ EnterFunction
    \/ Construct
    \/ Call
    \/ FnExcept
    \/ MainExcept
    \/ FnReturn
    \/ TopLevel
    \/ Validate

Spec == Init /\ [][Next]_vars

----------------------------------------------------------------------------
(* Properties *)

Exited == entry = "cli" /\ pc = "exited"

\* the command line was accepted by parse_args and names this action
Accepted(a) == entry = "cli" /\ ParseOutcome(argv) = "ok" /\ argv.action = <<a>>

\* --task-id is absent or is the empty string
NoTaskId == "--task-id" \notin DOMAIN argv.opts \/ argv.opts["--task-id"] = ""

Printed(line) == \E n \in 1..Len(out) : out[n] = line

\* C1: a replay command line without a task id (absent or empty) never calls the
\* crew, and the process it starts ends with exit status 1
C1_ReplayWithoutTaskId ==
    (Accepted("replay") /\ NoTaskId) =>
        /\ calls = <<>>
        /\ pc \notin {"fn", "construct", "call"}
        /\ pc = "exited" => exit_code = 1

C1_Witness ==
    /\ Accepted("replay")
    /\ "--task-id" \in DOMAIN argv.opts
    /\ argv.opts["--task-id"] = ""
    /\ pc = "exited"
    /\ exit_code = 1
    /\ calls = <<>>

\* C2: when the framework raised an Exception, on every entry path the process
\* ends with a non-zero exit status and the function's error line, carrying the
\* text of that exception, has been printed
C2_ExceptionIsFatalAndReported ==
    (Exited /\ outcome.kind = "exception") =>
        /\ exit_code > 0
        /\ \E n \in 1..Len(out) :
              /\ out[n].stream = "stdout"
              /\ out[n].arg = outcome.exc.text
              /\ out[n].text \in {"Error occurred while running the crew: ",
                                  "Error occurred while training the crew: ",
                                  "Error occurred while replaying the crew: ",
                                  "Error occurred while testing the crew: "}

C2_Witness ==
    /\ Exited
    /\ NoArguments(argv)
    /\ outcome.phase = "call"
    /\ outcome.kind = "exception"
    /\ outcome.exc.text = "rate limit exceeded"
    /\ exit_code = 1

\* C3: an interrupt during the crew operation is caught by main's handler and
\* the process ends with exit status 1, on every entry path of the script
C3_InterruptExitsWithOne ==
    (Exited /\ outcome.phase = "call" /\ outcome.kind = "interrupt") =>
        /\ exit_code = 1
        /\ Printed(Stdout("Operation cancelled by user", ""))

\* exit status of the `run` action for a framework outcome: main's handlers,
\* then the interpreter
RunExitStatus(o) ==
    IF o.kind = "return" THEN 0 ELSE UncaughtExit(MainHandler(o.exc))

RunOnly == [EmptyCommandLine EXCEPT !.action = <<"run">>]

\* C4: the script without arguments and the script with the single argument
\* `run` call kickoff with the same inputs (default motion, current year) and
\* end with the same exit status, for every outcome of the framework
C4_NoArgumentsSameAsRun ==
    (Exited /\ outcome.phase = "call" /\ (NoArguments(argv) \/ argv = RunOnly)) =>
        /\ exit_code = RunExitStatus(outcome)
        /\ \A n \in 1..Len(calls) :
              calls[n] = [op |-> "kickoff", inputs |-> get_default_inputs(now)]

\* C5 as claimed: every invocation has made exactly one crew call when it ends
C5_ExactlyOneCall == Exited => Len(calls) = 1

\* the script never reaches the crew operation: the command line is rejected or
\* asks for help, replay has no task id, or constructing the crew failed
StoppedBeforeCall ==
    \/ ~NoArguments(argv) /\ ParseOutcome(argv) # "ok"
    \/ Accepted("replay") /\ NoTaskId
    \/ outcome.phase = "construct"

\* C5 amended: an invocation makes at most one crew call, never a second one
\* after a failure; when the process ends it has made none if it stopped before
\* the call (rejected command line or help, replay without task id, crew
\* construction failed) and exactly one otherwise
C5_AtMostOneCall ==
    entry = "cli" =>
        /\ Len(calls) <= 1
        /\ pc = "exited" => (Len(calls) = 0 <=> StoppedBeforeCall)
        /\ pc = "exited" => (Len(calls) = 1 <=> ~StoppedBeforeCall)

C5_Witness ==
    /\ Exited
    /\ Accepted("train")
    /\ outcome.phase = "call"
    /\ outcome.kind = "exception"
    /\ Len(calls) = 1

Supplied(k) ==
    IF entry = "cli"
    THEN /\ k = "motion"
         /\ "--motion" \in DOMAIN argv.opts
         /\ argv.opts["--motion"] # ""
    ELSE /\ given # PyNone
         /\ k \in DOMAIN given.d
         /\ given.d[k] # PyNone
         /\ given.d[k] # PyStr("")

InputOps == {"kickoff", "train", "test"}

\* C7: when no motion is supplied, the inputs handed to kickoff, train or test
\* carry the default motion; when no year is supplied, they carry the current
\* year as a string
C7_DefaultsFillTheInputs ==
    \A n \in 1..Len(calls) :
        calls[n].op \in InputOps =>
            /\ ~Supplied("motion") =>
                  calls[n].inputs["motion"] =
                      PyStr("AI LLMs will significantly improve human productivity")
            /\ ~Supplied("current_year") =>
                  /\ calls[n].inputs["current_year"].t = "str"
                  /\ calls[n].inputs["current_year"].v = Str(now)
                  /\ now = 2025 => calls[n].inputs["current_year"].v = "2025"
                  /\ now = 2026 => calls[n].inputs["current_year"].v = "2026"

C7_Witness ==
    /\ Accepted("test")
    /\ "--motion" \in DOMAIN argv.opts
    /\ argv.opts["--motion"] = ""
    /\ Len(calls) = 1
    /\ calls[1].inputs["motion"].v = DEFAULT_MOTION
    /\ calls[1].inputs["current_year"].v = "2026"

\* C8: a non-empty --motion M given with run, train or test reaches the crew
\* operation unchanged, together with the current year
C8_MotionOverrides ==
    (entry = "cli" /\ Supplied("motion")) =>
        \A n \in 1..Len(calls) :
            calls[n].op \in InputOps =>
                /\ calls[n].inputs["motion"] = PyStr(argv.opts["--motion"])
                /\ calls[n].inputs["current_year"] = PyStr(Str(now))
                /\ DOMAIN calls[n].inputs = {"motion", "current_year"}

C8_Witness ==
    /\ Accepted("run")
    /\ Len(calls) = 1
    /\ calls[1] = [op |-> "kickoff",
                   inputs |-> [k \in {"motion", "current_year"} |->
                                 IF k = "motion"
                                 THEN PyStr("Remote work improves productivity")
                                 ELSE PyStr("2025")]]

\* the integer an --iterations token stands for
TokenValue(tk) ==
    CASE tk = <<"7">> -> 7
      [] tk = <<"1", "2">> -> 12
      [] tk = <<"-", "3">> -> 0 - 3

\* the crew call each action is expected to make, read off the command line
ExpectedCall ==
    LET a == argv.action[1]
        n == IF argv.iterations = <<>> THEN 5 ELSE TokenValue(argv.iterations[1])
        opt(o, dflt) == IF o \in DOMAIN argv.opts THEN argv.opts[o] ELSE dflt
    IN  CASE a = "run"    -> [op |-> "kickoff"]
          [] a = "train"  -> [op |-> "train", n_iterations |-> n,
                              filename |-> opt("--filename", "training_results.json")]
          [] a = "replay" -> [op |-> "replay", task_id |-> opt("--task-id", "")]
          [] a = "test"   -> [op |-> "test", n_iterations |-> n,
                              eval_llm |-> opt("--eval-llm", "openai/gpt-4o-mini")]

\* C9: every crew call of an accepted command line is the operation of its
\* action, with the iteration count, file name, evaluator and task id of the
\* command line (5, training_results.json and openai/gpt-4o-mini by default)
C9_ParametersPassThrough ==
    (entry = "cli" /\ ~NoArguments(argv)) =>
        \A n \in 1..Len(calls) :
            LET c == calls[n]
                e == ExpectedCall
            IN  /\ c.op = e.op
                /\ c.op = "train" =>
                      /\ c.n_iterations = e.n_iterations
                      /\ c.filename = e.filename
                /\ c.op = "test" =>
                      /\ c.n_iterations = e.n_iterations
                      /\ c.eval_llm = e.eval_llm
                /\ c.op = "replay" => c = e

C9_Witness ==
    /\ Accepted("test")
    /\ argv.iterations = <<>>
    /\ "--eval-llm" \notin DOMAIN argv.opts
    /\ Len(calls) = 1
    /\ calls[1].op = "test"
    /\ calls[1].n_iterations = 5
    /\ calls[1].eval_llm = "openai/gpt-4o-mini"

Empty(d, k) == k \notin DOMAIN d \/ d[k] = PyNone \/ d[k] = PyStr("")

\* C10: validate_inputs(d) keeps every key of d, adds motion and current_year,
\* leaves every non-empty motion / current_year and every other key as given,
\* puts the defaults in place of the missing or empty ones, returns non-empty
\* motion and current_year, and validating its result again changes nothing
C10_ValidateInputs ==
    (entry = "api" /\ given # PyNone /\ pc # "fn") =>
        LET d == given.d
            r == inputs.d
        IN  /\ DOMAIN r = DOMAIN d \cup {"motion", "current_year"}
            /\ \A k \in DOMAIN d :
                  (k \notin {"motion", "current_year"} \/ ~Empty(d, k)) => r[k] = d[k]
            /\ Empty(d, "motion") => r["motion"] = PyStr(DEFAULT_MOTION)
            /\ Empty(d, "current_year") => r["current_year"] = PyStr(Str(now))
            /\ ~Empty(r, "motion")
            /\ ~Empty(r, "current_year")
            /\ \A y \in Years : validate_inputs(r, y) = r

C10_Witness ==
    /\ entry = "api"
    /\ fn = "validate_inputs"
    /\ pc = "returned"
    /\ DOMAIN given.d = {"motion", "current_year", "style"}
    /\ given.d["motion"] = PyStr("")
    /\ given.d["current_year"] = PyStr("1999")
    /\ inputs.d["motion"] = PyStr(DEFAULT_MOTION)
    /\ inputs.d["current_year"] = PyStr("1999")
    /\ inputs.d["style"] = PyStr("formal")

====
